---- MODULE Spec2Model ----
(***************************************************************************)
(* A model of the fitting loop of nems.analysis: fit_basic                 *)
(* (src/nems/analysis/fit_basic.py) and the two basic_cost functions       *)
(* (fit_basic.py and cost_functions.py), with the function attributes      *)
(* (counter, stack, error) they keep between calls.                        *)
(*                                                                         *)
(* An optional value (a dict key that may be missing, an attribute that    *)
(* may not exist, Python's None) is a sequence: <<>> when absent, <<v>>    *)
(* when present with value v.                                              *)
(***************************************************************************)
EXTENDS Integers, Sequences, FiniteSets, TLC

\* ---------------------------------------------------------------- bounds
NMod == 2          \* modules of a modelspec
MaxCalls == 2      \* cost calls the fitter makes in one fit (Spec)
MaxLongCalls == 1001   \* cost calls the fitter makes in one fit (SpecLong)
MaxTime == 2       \* the clock (time.time()) runs from 0 to MaxTime
MaxIter == 2       \* njacks, nsplits, ntimes, len(data_list) are at most MaxIter
MaxDuration == 12000   \* zooming stops once display_duration is this far from 0 (ms)

\* ------------------------------------------------------ program constants
CadenceFb == 1000  \* fit_basic.py: basic_cost.counter % 1000
CadenceCf == 500   \* cost_functions.py: basic_cost.counter % 500

None == <<>>
Some(v) == <<v>>
IsNone(o) == o = <<>>
Get(o) == o[1]

\* A phi is one number. The code only copies phi values and compares them for
\* equality, so two distinct values stand for all of them.
PhiVals == {0, 1}
Idx == 1..NMod
Fns == {"fit_basic.basic_cost", "cost_functions.basic_cost"}
FB == "fit_basic.basic_cost"
CF == "cost_functions.basic_cost"

\* The recording: one stimulus sample and one response sample.
data == [stim |-> 1, resp |-> 0, cached |-> <<>>]

\* A module of a modelspec: 'phi' (may be missing), the mean of its prior
\* (the prior may be missing), and the fit-mode marking fit_mode_on sets.
ModuleSet == [phi : {None} \cup {Some(v) : v \in PhiVals},
              prior : {None, Some(0)},
              fit : BOOLEAN]

\* Modelspecs a caller passes in: not yet in fit mode; a module either has
\* 'phi' (a value other than the mean of its prior) and a prior, or has no
\* 'phi' and a prior, or has neither.
InputModules == {m \in ModuleSet : /\ ~m.fit
                                   /\ ~IsNone(m.phi) => m.phi = Some(1) /\ ~IsNone(m.prior)}
InputSpecs == [Idx -> InputModules]

VARIABLES
    pc,             \* "idle" | "fitting" | "done" | "error": where fit_basic is
    exc,            \* the exception fit_basic ended with, "none" if none
    modelspec,      \* the modelspec object the caller passed (fit_basic works on it by reference)
    orig,           \* the value of that object when fit_basic was entered
    cost_function,  \* my_cost_function of the current fit
    require_phi,    \* the require_phi argument of the current fit
    counter,        \* [Fns -> optional Nat]: the attribute basic_cost.counter
    stack,          \* optional stack: the attribute cost_functions.basic_cost.stack
    error,          \* [Fns -> optional value]: the attribute basic_cost.error
    stack_spec,     \* optional: the specification whose evaluation produced stack
    ncalls,         \* cost calls completed in the current fit
    emitted,        \* progress observations (progress_fun) in the current fit
    last,           \* optional record: what the last cost call did, while the fit runs
    improved_sigma, \* optional: the vector the fitter returned
    metaname,       \* the metaname argument of the current fit
    now,            \* the clock: what time.time() returned last
    start_time,     \* start_time of the current fit
    fits,           \* the fits that run interleaved: where each one is
    loop,           \* the multi-fit function that is running: its loop
    win,            \* the recording browser: the attributes of ApplicationWindow
    results         \* what fit_basic returned: a sequence of result objects

vars == <<pc, exc, modelspec, orig, cost_function, require_phi, counter, stack,
          error, stack_spec, ncalls, emitted, last, improved_sigma, metaname, now,
          start_time, fits, loop, win, results>>


\* ------------------------------------------------ collaborators (not in src/)
Min(S) == CHOOSE x \in S : \A y \in S : x <= y

\* nems.priors.set_mean_phi, for one module: phi becomes the mean of the prior.
SetMeanPhi(m) == [m EXCEPT !.phi = m.prior]

\* nems.modelspec.fit_mode_on / fit_mode_off: mark every module, in place.
FitModeOn(spec) == [i \in Idx |-> [spec[i] EXCEPT !.fit = TRUE]]
FitModeOff(spec) == [i \in Idx |-> [spec[i] EXCEPT !.fit = FALSE]]

\* The modules that have 'phi', in module order.
WithPhi(spec) == SelectSeq([i \in Idx |-> i], LAMBDA i : ~IsNone(spec[i].phi))

\* mapper(modelspec).pack: the phi values, module by module.
Pack(spec) == [k \in 1..Len(WithPhi(spec)) |-> Get(spec[WithPhi(spec)[k]].phi)]

\* mapper(modelspec).unpack: a deep copy of the template whose phi values are
\* those of the vector.
Unpack(template, vec) ==
    [i \in Idx |->
        IF IsNone(template[i].phi) THEN template[i]
        ELSE [template[i] EXCEPT
                !.phi = Some(vec[CHOOSE k \in 1..Len(WithPhi(template)) :
                                     WithPhi(template)[k] = i])]]

\* The vectors of the fit space of a modelspec.
Vectors(spec) == [1..Len(WithPhi(spec)) -> PhiVals]

\* nems.segmentors.use_all_data
Segmentor(d) == d

\* The transform of one module applied to a signal value.
Apply(x, m) == IF IsNone(m.phi) THEN x + 1 ELSE 2 * x + Get(m.phi)

\* The output of module i when the outputs of the first c modules are taken
\* from cached and the rest are computed.
RECURSIVE Out(_, _, _, _, _)
Out(x, spec, i, c, cached) ==
    IF i = 0 THEN x
    ELSE IF i <= c THEN cached[i]
    ELSE Apply(Out(x, spec, i - 1, c, cached), spec[i])

\* nems.modelspec.evaluate(data, spec, start, keep_stack): start = None runs
\* every module on the stimulus; start = s resumes at module index s (0-based)
\* from the cached outputs copy_stack_data put into the data.
Evaluate(d, spec, start, keep_stack) ==
    LET c == IF IsNone(start) THEN 0 ELSE Get(start)
        out == [i \in Idx |-> Out(d.stim, spec, i, c, d.cached)]
    IN [pred |-> out[NMod], resp |-> d.resp,
        stack |-> IF keep_stack THEN Some(out) ELSE None]

\* nems.fitters.util.last_matching_phi(a, b): the (0-based) index of the last
\* module of the leading run of modules whose phi is the same in a and b.
LastMatchingPhi(a, b) ==
    Min({i \in 0..NMod : i = NMod \/ a[i + 1].phi # b[i + 1].phi}) - 1

\* nems.fitters.util.copy_stack_data(data, stack, idx, modelspec): the data
\* with the cached outputs of modules 0..idx.
CopyStackData(d, stk, idx, spec) == [d EXCEPT !.cached = SubSeq(stk, 1, idx + 1)]

\* The metric: squared error of the prediction.
Metric(d) == (d.pred - d.resp) * (d.pred - d.resp)


\* ------------------------------------------------------------- fit_basic
MetaNames == {"fit_basic", "fit_jackknifes"}

\* Mutants of EnsurePhi: the loop never runs; the loop also overwrites a phi
\* that is there.
EnsurePhiSkipped(spec, rp) == [ok |-> TRUE, spec |-> spec]

EnsurePhiOverwrites(spec, rp) ==
    IF ~rp THEN [ok |-> TRUE, spec |-> spec]
    ELSE LET bad == {i \in Idx : IsNone(spec[i].phi) /\ IsNone(spec[i].prior)}
             stop == IF bad = {} THEN NMod + 1 ELSE Min(bad)
         IN [ok |-> bad = {},
             spec |-> [i \in Idx |->
                         IF i < stop THEN SetMeanPhi(spec[i]) ELSE spec[i]]]

\* fit_basic, "if require_phi:" loop: modules are visited in order; a module
\* without 'phi' is replaced in the caller's list by set_mean_phi's module;
\* set_mean_phi raises on a module without a prior and the loop stops there.
EnsurePhi(spec, rp) ==
    IF ~rp THEN [ok |-> TRUE, spec |-> spec]
    ELSE LET bad == {i \in Idx : IsNone(spec[i].phi) /\ IsNone(spec[i].prior)}
             stop == IF bad = {} THEN NMod + 1 ELSE Min(bad)
         IN [ok |-> bad = {},
             spec |-> [i \in Idx |->
                         IF i < stop /\ IsNone(spec[i].phi)
                         THEN SetMeanPhi(spec[i]) ELSE spec[i]]]

\* Mutant of ResetCounter: the counter is set only when the attribute is new.
ResetCounterOnce(c, fn) == IF IsNone(c[fn]) THEN [c EXCEPT ![fn] = Some(0)] ELSE c

\* fit_basic, "my_cost_function.counter = 0"
ResetCounter(c, fn) == [c EXCEPT ![fn] = Some(0)]

\* Mutants of FitResults: a vector of zeros is unpacked; fit_mode_off is not
\* called; the metaname argument is ignored; "results = [improved_modelspec]",
\* without the copy.
FitResultsZeroVector(template, sigma, name, elapsed_time) ==
    <<[obj |-> "deepcopy",
       mods |-> FitModeOff(Unpack(template, [k \in 1..Len(sigma) |-> 0])),
       meta |-> [fitter |-> name, fit_time |-> elapsed_time,
                 n_parms |-> Len(sigma)]]>>

FitResultsStillFitting(template, sigma, name, elapsed_time) ==
    <<[obj |-> "deepcopy",
       mods |-> Unpack(template, sigma),
       meta |-> [fitter |-> name, fit_time |-> elapsed_time,
                 n_parms |-> Len(sigma)]]>>

FitResultsDefaultName(template, sigma, name, elapsed_time) ==
    <<[obj |-> "deepcopy",
       mods |-> FitModeOff(Unpack(template, sigma)),
       meta |-> [fitter |-> "fit_basic", fit_time |-> elapsed_time,
                 n_parms |-> Len(sigma)]]>>

FitResultsNoCopy(template, sigma, name, elapsed_time) ==
    <<[obj |-> "unpacked",
       mods |-> FitModeOff(Unpack(template, sigma)),
       meta |-> [fitter |-> name, fit_time |-> elapsed_time,
                 n_parms |-> Len(sigma)]]>>

\* fit_basic, from the fitter's return to "return results": unpack the
\* improved vector, leave fit mode, set the metadata, deep-copy into a list.
FitResults(template, sigma, name, elapsed_time) ==
    LET improved_modelspec ==
            [obj |-> "unpacked",
             mods |-> FitModeOff(Unpack(template, sigma)),
             meta |-> [fitter |-> name, fit_time |-> elapsed_time,
                       n_parms |-> Len(sigma)]]
    IN <<[improved_modelspec EXCEPT !.obj = "deepcopy"]>>

\* The class attributes of ApplicationWindow, before a window is constructed.
\* Times are in milliseconds.
NoWindow ==
    [open |-> FALSE, signals |-> <<>>, plot_list |-> <<>>, start_time |-> 0,
     display_duration |-> 10000, stop_time |-> 10000, max_time |-> 0,
     time_slider |-> [value |-> 0, maximum |-> 0]]

\* What a single sequence of fits never touches.
others == <<fits, loop, win>>

\* Two invocations of fit_basic that run interleaved.
FitIds == {1, 2}

Init ==
    /\ pc = "idle"
    /\ exc = "none"
    /\ modelspec \in InputSpecs
    /\ orig = modelspec
    /\ cost_function = FB
    /\ require_phi = TRUE
    /\ counter = [f \in Fns |-> None]
    /\ stack = None
    /\ error = [f \in Fns |-> None]
    /\ stack_spec = None
    /\ ncalls = 0
    /\ emitted = 0
    /\ last = None
    /\ improved_sigma = None
    /\ metaname = "fit_basic"
    /\ now = 0
    /\ start_time = 0
    /\ fits = [f \in FitIds |-> [pc |-> "idle", fn |-> FB, ncalls |-> 0, res |-> <<>>]]
    /\ loop = [st |-> "off", variant |-> "fit_jackknifes", n |-> 0, i |-> 0,
               ready |-> FALSE, base |-> modelspec, models |-> <<>>]
    /\ win = NoWindow
    /\ results = <<>>

\* time.time(): the clock has advanced by some d in ticks since it was last
\* read (it does not run backwards).
Clock(ticks) == {t \in 0..MaxTime : t - now \in ticks}

\* "elapsed_time = (time.time() - start_time)"
Elapsed(t, start) == t - start

\* The caller calls fit_basic(data, modelspec, cost_function=fn,
\* metaname=name, require_phi=rp) and it runs up to the call of the fitter.
FitBegin(from, fns, rps, names, ticks) ==
    \E fn \in fns, rp \in rps, name \in names, t \in Clock(ticks) :
        LET e == EnsurePhi(modelspec, rp) IN
        /\ pc \in from
        /\ e.ok
        /\ now' = t
        /\ start_time' = t
        /\ metaname' = name
        /\ pc' = "fitting"
        /\ exc' = "none"
        /\ orig' = modelspec
        /\ modelspec' = FitModeOn(e.spec)
        /\ cost_function' = fn
        /\ require_phi' = rp
        /\ counter' = ResetCounter(counter, fn)
        /\ ncalls' = 0
        /\ emitted' = 0
        /\ last' = None
        /\ improved_sigma' = None
        /\ results' = <<>>
        /\ UNCHANGED <<stack, stack_spec, error>>
        /\ UNCHANGED others

\* The same call when set_mean_phi raises: fit_basic ends with that error.
FitBeginFail(from, fns, names, ticks) ==
    \E fn \in fns, name \in names, t \in Clock(ticks) :
        LET e == EnsurePhi(modelspec, TRUE) IN
        /\ pc \in from
        /\ ~e.ok
        /\ now' = t
        /\ start_time' = t
        /\ metaname' = name
        /\ pc' = "error"
        /\ exc' = "set_mean_phi"
        /\ orig' = modelspec
        /\ modelspec' = e.spec
        /\ cost_function' = fn
        /\ require_phi' = TRUE
        /\ ncalls' = 0
        /\ emitted' = 0
        /\ last' = None
        /\ improved_sigma' = None
        /\ results' = <<>>
        /\ UNCHANGED <<counter, stack, stack_spec, error>>
        /\ UNCHANGED others

\* The fitter returns the vector sigma; fit_basic returns results.
FitterReturn(sigmas, ticks) ==
    \E sigma \in sigmas, t \in Clock(ticks) :
        /\ pc = "fitting"
        /\ pc' = "done"
        /\ improved_sigma' = Some(sigma)
        /\ now' = t
        /\ results' = FitResults(modelspec, sigma, metaname, Elapsed(t, start_time))
        /\ last' = None
        /\ UNCHANGED <<exc, modelspec, orig, cost_function, require_phi, counter,
                       stack, error, stack_spec, ncalls, emitted, metaname,
                       start_time>>
        /\ UNCHANGED others

\* What fit_basic does when the call of the fitter on line 82 raises: it has
\* no handler, so lines 83-96 do not run and the error reaches the caller.
FitterFailureSwallowed(template, name) ==
    [pc |-> "done", exc |-> "none",
     results |-> FitResults(template, Pack(template), name, 0)]

FitterFailure(template, name) ==
    [pc |-> "error", exc |-> "fitter", results |-> <<>>]

\* The fitter raises.
FitterRaise ==
    LET f == FitterFailure(modelspec, metaname) IN
    /\ pc = "fitting"
    /\ pc' = f.pc
    /\ exc' = f.exc
    /\ results' = f.results
    /\ last' = None
    /\ UNCHANGED <<modelspec, orig, cost_function, require_phi, counter, stack,
                   error, stack_spec, ncalls, emitted, improved_sigma, metaname,
                   now, start_time>>
    /\ UNCHANGED others


\* ------------------------------------------------------------ basic_cost
Cadence(fn) == IF fn = FB THEN CadenceFb ELSE CadenceCf

\* Mutant of Progress: the counter is tested before it is incremented.
ProgressTestsFirst(cnt, N) ==
    IF IsNone(cnt) THEN [counter |-> cnt, emit |-> FALSE]
    ELSE [counter |-> Some(Get(cnt) + 1), emit |-> Get(cnt) % N = 0]

\* "if hasattr(basic_cost, 'counter'): basic_cost.counter += 1; if
\* basic_cost.counter % N == 0: log.info(...); nems.utils.progress_fun()"
Progress(cnt, N) ==
    IF IsNone(cnt) THEN [counter |-> cnt, emit |-> FALSE]
    ELSE [counter |-> Some(Get(cnt) + 1), emit |-> (Get(cnt) + 1) % N = 0]

\* "if hasattr(basic_cost, 'error'): basic_cost.error = error"
SetError(attr, err) == IF IsNone(attr) THEN attr ELSE Some(err)

\* Mutant of Returned: a call that reports progress returns something else.
ReturnedOnEmit(err, emit) == IF emit THEN err + 1 ELSE err

\* "return error"
Returned(err, emit) == err

\* The statements of fit_basic.py basic_cost a call runs, in the order of the
\* code: lines 102, 106, 107, 108, 113.
StepsFb(counted) ==
    <<"unpack", "segment", "evaluate", "score">>
    \o (IF counted THEN <<"counter">> ELSE <<>>)

\* Mutant of StepsCf: the metric is computed before the stack is kept.
StepsCfScoreFirst(keep_stack, resume, counted) ==
    <<"unpack", "segment">>
    \o (IF resume THEN <<"prefix">> ELSE <<>>)
    \o <<"evaluate", "score">>
    \o (IF keep_stack THEN <<"cache">> ELSE <<>>)
    \o (IF counted THEN <<"counter">> ELSE <<>>)

\* The statements of cost_functions.py basic_cost a call runs, in the order
\* of the code: lines 12, 16, 19-25, 27, 30-31, 33, 38.
StepsCf(keep_stack, resume, counted) ==
    <<"unpack", "segment">>
    \o (IF resume THEN <<"prefix">> ELSE <<>>)
    \o <<"evaluate">>
    \o (IF keep_stack THEN <<"cache">> ELSE <<>>)
    \o <<"score">>
    \o (IF counted THEN <<"counter">> ELSE <<>>)

\* Mutant of Resume: a cache that is there is used whatever keep_stack is.
ResumeWhenCached(keep_stack, stk) == ~IsNone(stk)

\* "if keep_stack and hasattr(basic_cost, 'stack'):"
Resume(keep_stack, stk) == keep_stack /\ ~IsNone(stk)

\* Mutant of UpdateStack: the stack is kept only when there is none yet.
UpdateStackOnce(stk, keep_stack, evaluated) ==
    IF keep_stack /\ IsNone(stk) THEN evaluated ELSE stk

\* "if keep_stack: basic_cost.stack = updated_data_subset['stack']"
UpdateStack(stk, keep_stack, evaluated) ==
    IF keep_stack THEN evaluated ELSE stk

\* fit_basic.py basic_cost, up to the metric: unpack, segment, evaluate, score.
BasicCostFb(template, sigma) ==
    LET updated_spec == Unpack(template, sigma)
        data_subset == Segmentor(data)
        updated_data_subset == Evaluate(data_subset, updated_spec, None, FALSE)
    IN [spec |-> updated_spec, start |-> None, stack |-> stack,
        evaluated |-> updated_data_subset.stack,
        steps |-> StepsFb(~IsNone(counter[FB])),
        err |-> Metric(updated_data_subset)]

\* cost_functions.py basic_cost, up to the metric: unpack, segment, look for a
\* reusable prefix of the cached stack, evaluate, keep the new stack, score.
BasicCostCf(template, sigma, keep_stack) ==
    LET updated_spec == Unpack(template, sigma)
        resume == Resume(keep_stack, stack)
        idx == LastMatchingPhi(template, updated_spec)
        data_subset == IF resume
                       THEN CopyStackData(Segmentor(data), Get(stack), idx, template)
                       ELSE Segmentor(data)
        start_idx == IF resume THEN Some(idx + 1) ELSE None
        updated_data_subset == Evaluate(data_subset, updated_spec, start_idx, keep_stack)
    IN [spec |-> updated_spec, start |-> start_idx,
        stack |-> UpdateStack(stack, keep_stack, updated_data_subset.stack),
        evaluated |-> updated_data_subset.stack,
        steps |-> StepsCf(keep_stack, resume, ~IsNone(counter[CF])),
        err |-> Metric(updated_data_subset)]

\* The fitter calls cost_fn(sigma) (or cost_fn(sigma, keep_stack=True), which
\* only cost_functions.basic_cost accepts) and the call returns.
CostCall(cap, sigmas, keeps) ==
    \E sigma \in sigmas, keep_stack \in keeps :
        LET r == IF cost_function = FB THEN BasicCostFb(modelspec, sigma)
                 ELSE BasicCostCf(modelspec, sigma, keep_stack)
            p == Progress(counter[cost_function], Cadence(cost_function))
        IN
        /\ pc = "fitting"
        /\ ncalls < cap
        /\ cost_function = FB => ~keep_stack
        /\ counter' = [counter EXCEPT ![cost_function] = p.counter]
        /\ emitted' = emitted + (IF p.emit THEN 1 ELSE 0)
        /\ error' = [error EXCEPT ![cost_function] = SetError(@, r.err)]
        /\ stack' = r.stack
        /\ stack_spec' = IF cost_function = CF /\ keep_stack THEN Some(r.spec)
                         ELSE stack_spec
        /\ ncalls' = ncalls + 1
        /\ last' = Some([sigma |-> sigma, keep_stack |-> keep_stack,
                         spec |-> r.spec, start |-> r.start,
                         cache_from |-> stack_spec, emit |-> p.emit,
                         evaluated |-> r.evaluated, steps |-> r.steps,
                         ret |-> Returned(r.err, p.emit)])
        /\ UNCHANGED <<pc, exc, modelspec, orig, cost_function, require_phi,
                       improved_sigma, metaname, now, start_time, results>>
        /\ UNCHANGED others

AnyTime == {"idle", "done", "error"}
Default == {"fit_basic"}
NoTick == {0}

\* fit_basic as its callers in src/ use it: any number of fits, one after the
\* other, of the same modelspec object, with either cost function, called by
\* the fitter the way fit_basic binds it (keep_stack is not passed).
Next ==
    \/ FitBegin(AnyTime, Fns, BOOLEAN, Default, NoTick)
    \/ FitBeginFail(AnyTime, Fns, Default, NoTick)
    \/ CostCall(MaxCalls, Vectors(modelspec), {FALSE})
    \/ FitterReturn(Vectors(modelspec), NoTick)
    \/ FitterRaise

Spec == Init /\ [][Next]_vars

\* ---------------------------------------------------------------------
\* Fits with cost_functions.basic_cost whose fitter may pass keep_stack=True,
\* of a modelspec whose modules all have phi.
FullModelspec == [i \in Idx |-> [phi |-> Some(1), prior |-> Some(0), fit |-> FALSE]]

InitCache == Init /\ modelspec = FullModelspec

NextCache ==
    \/ FitBegin(AnyTime, {CF}, {TRUE}, Default, NoTick)
    \/ CostCall(MaxCalls, Vectors(modelspec), BOOLEAN)
    \/ FitterReturn(Vectors(modelspec), NoTick)
    \/ FitterRaise

SpecCache == InitCache /\ [][NextCache]_vars

\* ---------------------------------------------------------------------
\* One long fit, with either cost function: the fitter makes up to
\* MaxLongCalls cost calls, varying the first parameter only.
LongSigmas == {v \in Vectors(modelspec) :
                 \A k \in 2..Len(v) : v[k] = Pack(modelspec)[k]}

NextLong ==
    \/ FitBegin({"idle"}, Fns, {TRUE}, Default, NoTick)
    \/ CostCall(MaxLongCalls, LongSigmas, BOOLEAN)
    \/ FitterReturn(Vectors(modelspec), NoTick)
    \/ FitterRaise

SpecLong == InitCache /\ [][NextLong]_vars

\* ---------------------------------------------------------------------
\* Fits called under either metaname while the clock runs, with the default
\* cost function.
Ticks == {0, 1}

NextMeta ==
    \/ FitBegin(AnyTime, {FB}, BOOLEAN, MetaNames, Ticks)
    \/ FitBeginFail(AnyTime, {FB}, MetaNames, Ticks)
    \/ CostCall(MaxCalls, Vectors(modelspec), {FALSE})
    \/ FitterReturn(Vectors(modelspec), Ticks)
    \/ FitterRaise

SpecMeta == Init /\ [][NextMeta]_vars

\* ---------------------------------------------------------------------
\* Two invocations of fit_basic run interleaved, each on its own copy of the
\* caller's specification (orig). The attributes of the cost function belong
\* to the function, so both invocations read and write the same ones.
Template == FitModeOn(EnsurePhi(orig, TRUE).spec)

\* Invocation f runs lines 42-78 of fit_basic.
ConcBegin(f) ==
    \E fn \in Fns :
        /\ fits[f].pc = "idle"
        /\ EnsurePhi(orig, TRUE).ok
        /\ counter' = ResetCounter(counter, fn)
        /\ fits' = [fits EXCEPT ![f] = [pc |-> "fitting", fn |-> fn,
                                        ncalls |-> 0, res |-> <<>>]]
        /\ UNCHANGED <<pc, exc, modelspec, orig, cost_function, require_phi,
                       stack, error, stack_spec, ncalls, emitted, last,
                       improved_sigma, metaname, now, start_time, loop, win, results>>

\* The fitter of invocation f calls its cost function.
ConcCost(f) ==
    \E sigma \in Vectors(Template) :
        LET fn == fits[f].fn
            r == IF fn = FB THEN BasicCostFb(Template, sigma)
                            ELSE BasicCostCf(Template, sigma, FALSE)
            p == Progress(counter[fn], Cadence(fn))
        IN  /\ fits[f].pc = "fitting"
            /\ fits[f].ncalls < MaxCalls
            /\ counter' = [counter EXCEPT ![fn] = p.counter]
            /\ emitted' = emitted + (IF p.emit THEN 1 ELSE 0)
            /\ error' = [error EXCEPT ![fn] = SetError(error[fn], r.err)]
            /\ stack' = r.stack
            /\ stack_spec' = IF IsNone(r.stack) THEN stack_spec ELSE Some(r.spec)
            /\ fits' = [fits EXCEPT ![f].ncalls = @ + 1]
            /\ UNCHANGED <<pc, exc, modelspec, orig, cost_function,
                           require_phi, ncalls, last, improved_sigma, metaname,
                           now, start_time, loop, win, results>>

\* The fitter of invocation f returns and the invocation returns its results.
ConcReturn(f) ==
    \E sigma \in Vectors(Template) :
        /\ fits[f].pc = "fitting"
        /\ fits' = [fits EXCEPT ![f].pc = "done",
                                ![f].res = FitResults(Template, sigma, "fit_basic", 0)]
        /\ UNCHANGED <<pc, exc, modelspec, orig, cost_function, require_phi,
                       counter, stack, error, stack_spec, ncalls, emitted, last,
                       improved_sigma, metaname, now, start_time, loop, win, results>>

NextTwo ==
    \E f \in FitIds :
        \/ ConcBegin(f)
        \/ ConcCost(f)
        \/ ConcReturn(f)

SpecTwo == Init /\ [][NextTwo]_vars

\* ---------------------------------------------------------------------
\* The multi-fit functions: fit_nfold, fit_jackknifes, fit_subsets and
\* fit_from_priors. Each is a loop of n iterations; an iteration prepares
\* the data or the specification, calls fit_basic, and adds what fit_basic
\* returns to models.
Variants == {"fit_nfold", "fit_jackknifes", "fit_subsets", "fit_from_priors"}

\* The metaname each of them passes to fit_basic.
MetaOf(variant) == IF variant = "fit_subsets" THEN "fit_subset" ELSE variant

\* nems.initializers.prefit_to_target on a deep copy of modelspecs[0]: a new
\* specification, every phi initialized and some of them fitted.
Prefit(spec) ==
    LET t == FitModeOff(EnsurePhi(spec, TRUE).spec)
    IN  IF EnsurePhi(spec, TRUE).ok THEN {Unpack(t, v) : v \in Vectors(t)} ELSE {}

\* nems.priors.set_random_phi: a new specification whose modules with a prior
\* have a phi sampled from it.
SetRandomPhi(spec) ==
    {s \in [Idx -> ModuleSet] :
        \A i \in Idx : /\ s[i].prior = spec[i].prior
                        /\ s[i].fit = spec[i].fit
                        /\ IF IsNone(spec[i].prior) THEN s[i].phi = spec[i].phi
                           ELSE ~IsNone(s[i].phi)}

\* The specification an iteration passes to fit_basic: tms in fit_nfold, ms
\* in fit_from_priors, the caller's own modelspec in the other two.
Prepared(variant, base, current) ==
    CASE variant = "fit_nfold" -> Prefit(base)
      [] variant = "fit_from_priors" -> SetRandomPhi(base)
      [] OTHER -> {current}

\* Mutant of Collect: "models = fit_basic(...)".
CollectOverwrite(models, new) == new

\* "models += fit_basic(...)"
Collect(models, new) == models \o new

\* A caller calls one of the multi-fit functions: "models = []".
MultiStart ==
    \E variant \in Variants, n \in 0..MaxIter :
        /\ loop.st = "off"
        /\ pc = "idle"
        /\ loop' = [st |-> "running", variant |-> variant, n |-> n, i |-> 0,
                    ready |-> FALSE, base |-> modelspec, models |-> <<>>]
        /\ UNCHANGED <<pc, exc, modelspec, orig, cost_function, require_phi,
                       counter, stack, error, stack_spec, ncalls, emitted, last,
                       improved_sigma, metaname, now, start_time, fits, win, results>>

\* The loop body up to the call of fit_basic.
MultiPrepare ==
    \E prepared \in Prepared(loop.variant, loop.base, modelspec) :
        /\ loop.st = "running"
        /\ loop.i < loop.n
        /\ ~loop.ready
        /\ pc = "idle"
        /\ modelspec' = prepared
        /\ loop' = [loop EXCEPT !.ready = TRUE]
        /\ UNCHANGED <<pc, exc, orig, cost_function, require_phi, counter,
                       stack, error, stack_spec, ncalls, emitted, last,
                       improved_sigma, metaname, now, start_time, fits, win, results>>

\* prefit_to_target raises (a module has neither phi nor a prior): the
\* multi-fit function ends with that error.
MultiPrepareFail ==
    /\ loop.st = "running"
    /\ loop.i < loop.n
    /\ ~loop.ready
    /\ pc = "idle"
    /\ Prepared(loop.variant, loop.base, modelspec) = {}
    /\ loop' = [loop EXCEPT !.st = "raised"]
    /\ UNCHANGED <<pc, exc, modelspec, orig, cost_function, require_phi, counter,
                   stack, error, stack_spec, ncalls, emitted, last,
                   improved_sigma, metaname, now, start_time, fits, win, results>>

\* The call of fit_basic in the loop body, with the defaults of fit_basic for
\* the cost function and require_phi.
MultiFit ==
    /\ loop.st = "running"
    /\ loop.ready
    /\ \/ FitBegin({"idle"}, {FB}, {TRUE}, {MetaOf(loop.variant)}, NoTick)
       \/ FitBeginFail({"idle"}, {FB}, {MetaOf(loop.variant)}, NoTick)

\* fit_basic has returned: its list is added to models and the loop goes on.
\* Each element is tagged here with the iteration that produced it.
MultiCollect ==
    /\ loop.st = "running"
    /\ pc = "done"
    /\ loop' = [loop EXCEPT
                    !.models = Collect(@, [k \in 1..Len(results) |->
                                            [iter |-> loop.i, res |-> results[k]]]),
                    !.i = @ + 1,
                    !.ready = FALSE]
    /\ pc' = "idle"
    /\ UNCHANGED <<exc, modelspec, orig, cost_function, require_phi, counter,
                   stack, error, stack_spec, ncalls, emitted, last,
                   improved_sigma, metaname, now, start_time, fits, win, results>>

\* fit_basic has raised: the multi-fit function ends with that error.
MultiRaise ==
    /\ loop.st = "running"
    /\ pc = "error"
    /\ loop' = [loop EXCEPT !.st = "raised"]
    /\ UNCHANGED <<pc, exc, modelspec, orig, cost_function, require_phi, counter,
                   stack, error, stack_spec, ncalls, emitted, last,
                   improved_sigma, metaname, now, start_time, fits, win, results>>

\* The loop is over: "return models".
MultiReturn ==
    /\ loop.st = "running"
    /\ loop.i = loop.n
    /\ pc = "idle"
    /\ loop' = [loop EXCEPT !.st = "returned"]
    /\ UNCHANGED <<pc, exc, modelspec, orig, cost_function, require_phi, counter,
                   stack, error, stack_spec, ncalls, emitted, last,
                   improved_sigma, metaname, now, start_time, fits, win, results>>

\* The caller's specification has modules of one kind, and the fitter tries
\* and returns vectors of one value.
InitMulti == Init /\ \A i, j \in Idx : modelspec[i] = modelspec[j]

UniformSigmas == {v \in Vectors(modelspec) : \A j, k \in DOMAIN v : v[j] = v[k]}

NextMulti ==
    \/ MultiStart
    \/ MultiPrepare
    \/ MultiPrepareFail
    \/ MultiFit
    \/ loop.st = "running" /\ CostCall(MaxCalls, UniformSigmas, {FALSE})
    \/ loop.st = "running" /\ FitterReturn(UniformSigmas, NoTick)
    \/ loop.st = "running" /\ FitterRaise
    \/ MultiCollect
    \/ MultiRaise
    \/ MultiReturn

SpecMulti == InitMulti /\ [][NextMulti]_vars

\* ---------------------------------------------------------------------
\* The recording browser (nems/plots/recording_browser.py): one window on a
\* recording with three signals. Times are in milliseconds; the scroll bar
\* holds whole seconds.
MinimumDuration == 1        \* minimum_duration = 0.001
ZoomStep == 1000            \* display_duration += 1 / -= 1
Second == 1000

RecSignals == {"stim", "resp", "pred"}

\* NemsCanvas.max_time of the plot of signal s.
SignalTime(s) == IF s = "pred" THEN 11000 ELSE 12000

\* The signals argument of the constructor: the default, one signal, and a
\* list that names a signal the recording does not have.
SignalArgs == {<<"stim", "resp">>, <<"resp">>, <<"stim", "psth">>}

\* What the user can type into the display-range box (the validator accepts
\* 0.001 to 10000 seconds).
TypedDurations == {500, 2000}

\* _default_plot_instance(s)
Plot(s) == [signal |-> s, max_time |-> SignalTime(s)]

\* Python's list.insert(idx, x), list.pop(idx) and list.index(x); idx counts
\* from 0.
Insert(seq, idx, x) == SubSeq(seq, 1, idx) \o <<x>> \o SubSeq(seq, idx + 1, Len(seq))
Pop(seq, idx) == SubSeq(seq, 1, idx) \o SubSeq(seq, idx + 2, Len(seq))
Index(seq, x) == Min({k \in 1..Len(seq) : seq[k] = x}) - 1

Max(S) == CHOOSE x \in S : \A y \in S : x >= y

\* time_slider.setRange(0, max_time - display_duration): the scroll bar takes
\* whole seconds, a maximum below the minimum becomes the minimum, and the
\* value is kept inside the range.
SetRange(w) ==
    LET m == Max({0, ((w.max_time - w.display_duration) \div Second) * Second})
    IN [w EXCEPT !.time_slider = [maximum |-> m,
                                  value |-> Min({w.time_slider.value, m})]]

\* scroll_all. With no plot left _update_max_time raises (max of an empty
\* list) after start_time and stop_time are assigned.
ScrollAll(w) ==
    LET start == w.time_slider.value
        stop == start + w.display_duration
        mt == Max({w.plot_list[k].max_time : k \in 1..Len(w.plot_list)})
    IN  IF w.plot_list = <<>>
        THEN [w EXCEPT !.start_time = start, !.stop_time = stop]
        ELSE IF stop >= mt
        THEN [w EXCEPT !.max_time = mt, !.stop_time = mt,
                       !.start_time = Max({0, mt - w.display_duration})]
        ELSE [w EXCEPT !.max_time = mt, !.start_time = start, !.stop_time = stop]

\* _update_range
UpdateRange(w) == ScrollAll(SetRange(w))

\* All variables but win.
fitting == <<pc, exc, modelspec, orig, cost_function, require_phi, counter,
             stack, error, stack_spec, ncalls, emitted, last, improved_sigma,
             metaname, now, start_time, fits, loop, results>>

\* browse_recording(rec, signals): __init__ keeps the signals argument, plots
\* those of them the recording has, sets the display range to its default
\* (which runs set_display_range), and _window_startup calls scroll_all.
\* With no signal to plot _update_max_time raises and there is no window.
Construct ==
    \E signals \in SignalArgs :
        LET plotted == SelectSeq(signals, LAMBDA v : v \in RecSignals)
            w0 == [NoWindow EXCEPT !.open = TRUE,
                                   !.signals = signals,
                                   !.plot_list = [k \in 1..Len(plotted) |-> Plot(plotted[k])],
                                   !.max_time = Max({SignalTime(plotted[k]) :
                                                        k \in 1..Len(plotted)})]
        IN  /\ ~win.open
            /\ plotted # <<>>
            /\ win' = ScrollAll(UpdateRange(SetRange(w0)))
            /\ UNCHANGED fitting

\* The user moves the scroll bar: valueChanged runs scroll_all.
Scroll ==
    \E v \in {k * Second : k \in 0..(win.time_slider.maximum \div Second)} :
        /\ win.open
        /\ win' = ScrollAll([win EXCEPT !.time_slider.value = v])
        /\ UNCHANGED fitting

\* The user types a duration: textChanged runs set_display_range.
SetDisplayRange ==
    \E duration \in TypedDurations :
        /\ win.open
        /\ win' = UpdateRange([win EXCEPT !.display_duration = duration])
        /\ UNCHANGED fitting

\* 'Zoom Out': increment_display_range.
IncrementDisplayRange ==
    /\ win.open
    /\ win.display_duration < MaxDuration
    /\ win' = UpdateRange([win EXCEPT !.display_duration = @ + ZoomStep])
    /\ UNCHANGED fitting

\* 'Zoom In': decrement_display_range.
DecrementDisplayRange ==
    /\ win.open
    /\ win.display_duration > -MaxDuration
    /\ win' = UpdateRange([win EXCEPT !.display_duration = @ - ZoomStep])
    /\ UNCHANGED fitting

\* 'Add Signal': the user picks a position and a signal not yet listed.
AddSignal ==
    \E idx \in 0..Len(win.plot_list),
       s \in {v \in RecSignals : \A k \in 1..Len(win.signals) : win.signals[k] # v} :
        /\ win.open
        /\ win' = ScrollAll([win EXCEPT !.signals = Insert(@, idx, s),
                                        !.plot_list = Insert(@, idx, Plot(s))])
        /\ UNCHANGED fitting

\* 'Remove Signal': the user picks one of the listed signals. plot_list.pop
\* raises when the list has no such index, after signals.pop.
RemoveSignal ==
    \E k \in 1..Len(win.signals) :
        LET s == win.signals[k]
            idx == Index(win.signals, s)
        IN  /\ win.open
            /\ win' = IF idx >= Len(win.plot_list)
                      THEN [win EXCEPT !.signals = Pop(@, idx)]
                      ELSE ScrollAll([win EXCEPT !.signals = Pop(@, idx),
                                                 !.plot_list = Pop(@, idx)])
            /\ UNCHANGED fitting

NextBrowser ==
    \/ Construct
    \/ Scroll
    \/ SetDisplayRange
    \/ IncrementDisplayRange
    \/ DecrementDisplayRange
    \/ AddSignal
    \/ RemoveSignal

SpecBrowser == InitCache /\ [][NextBrowser]_vars


\* =====================================================================
\* Claims

\* Some module has neither 'phi' nor a prior.
Unfittable(spec) == \E i \in Idx : IsNone(spec[i].phi) /\ IsNone(spec[i].prior)

\* Every module has 'phi': the phi it came with, or else the mean of its prior.
PhiPopulated ==
    \A i \in Idx :
        /\ ~IsNone(modelspec[i].phi)
        /\ modelspec[i].phi = (IF IsNone(orig[i].phi) THEN orig[i].prior
                               ELSE orig[i].phi)

\* fit_basic has not reached the call of the fitter and has returned nothing.
FitterNotInvoked ==
    /\ pc = "idle" \/ (pc = "error" /\ exc = "set_mean_phi")
    /\ ncalls = 0
    /\ results = <<>>

\* C1: when fit_basic has ended, normally or with an error, the modelspec
\* object the caller passed has the keys and values it had before the call.
C1_CallerSpecUntouched ==
    pc \in {"done", "error"} => modelspec = orig

\* C2: the error a cost call with keep_stack=True returns is the error of a
\* full evaluation, from module 0, of the same candidate specification.
C2_IncrementalEqualsFull ==
    (~IsNone(last) /\ Get(last).keep_stack) =>
        Get(last).ret = Metric(Evaluate(Segmentor(data), Get(last).spec, None, FALSE))

\* C3: the first cost call of every fit finds no cache and evaluates from
\* module 0 (start=None), also in a fit that follows a fit that cached.
C3_FirstCallFindsNoCache ==
    (ncalls = 1 /\ ~IsNone(last)) => IsNone(Get(last).start)

\* C4: while a fit runs, the counter of its cost function is the number of
\* cost calls completed in this fit, whatever earlier fits did and whichever
\* of the two cost functions is used.
C4_CounterCountsCalls ==
    pc = "fitting" => counter[cost_function] = Some(ncalls)

C4_Witness ==
    /\ pc = "fitting"
    /\ ncalls = MaxCalls
    /\ orig[1].fit
    /\ \A f \in Fns : ~IsNone(counter[f])
    /\ Get(counter[IF cost_function = FB THEN CF ELSE FB]) > 0

\* C5: a cost call returns the metric of what the evaluator returned in that
\* call, for every vector and counter value, also when the call reports
\* progress; without caching that is metric(evaluator(segmentor(data),
\* unpacker(sigma))).
C5_ReturnsTheMetric ==
    ~IsNone(last) =>
        /\ Get(last).spec = Unpack(modelspec, Get(last).sigma)
        /\ Get(last).ret =
              IF Get(last).keep_stack
              THEN Metric([pred |-> Get(stack)[NMod], resp |-> data.resp])
              ELSE Metric(Evaluate(Segmentor(data), Unpack(modelspec, Get(last).sigma),
                                   None, FALSE))

C5_Witness ==
    /\ ~IsNone(last)
    /\ Get(last).emit
    /\ Get(last).sigma # Pack(modelspec)

\* C6: a cost call reports progress exactly when the counter it has just
\* incremented is a multiple of the cadence of its cost function (1000 in
\* fit_basic.py, 500 in cost_functions.py); after k calls of a fit,
\* floor(k / cadence) observations have been reported.
C6_ProgressCadence ==
    pc = "fitting" =>
        /\ emitted = ncalls \div Cadence(cost_function)
        /\ ~IsNone(last) =>
              (Get(last).emit <=> Get(counter[cost_function]) % Cadence(cost_function) = 0)

C6_Witness ==
    /\ pc = "fitting"
    /\ cost_function = FB
    /\ ncalls = CadenceFb + 1
    /\ emitted = 1
    /\ ~Get(last).emit

\* C7: the resume index of a cost call that reuses the cache is the number
\* of leading modules whose phi is the same in the candidate specification
\* and in the specification of the call that produced the cache.
C7_PrefixAgainstPreviousCall ==
    (~IsNone(last) /\ ~IsNone(Get(last).start)) =>
        Get(Get(last).start) =
            LastMatchingPhi(Get(Get(last).cache_from), Get(last).spec) + 1

\* C8 as claimed: if a module has neither 'phi' nor a prior, fit_basic fails
\* before the fitter is invoked and returns nothing.
C8_FailsBeforeFitter ==
    Unfittable(orig) => FitterNotInvoked

\* C8 amended: that holds when require_phi is true (the default).
C8_FailsBeforeFitterIfRequired ==
    (require_phi /\ Unfittable(orig)) => FitterNotInvoked

C8_Witness ==
    /\ pc = "error"
    /\ exc = "set_mean_phi"
    /\ require_phi
    /\ Unfittable(orig)

\* C9 as claimed: when the fitter is invoked every module has 'phi': the
\* mean of its prior if it had none, its own values otherwise.
C9_PhiBeforeFitting ==
    pc = "fitting" => PhiPopulated

\* C9 amended: that holds when require_phi is true (the default).
C9_PhiBeforeFittingIfRequired ==
    (pc = "fitting" /\ require_phi) => PhiPopulated

C9_Witness ==
    /\ pc = "fitting"
    /\ require_phi
    /\ \E i \in Idx : IsNone(orig[i].phi)
    /\ \E i \in Idx : ~IsNone(orig[i].phi)

\* C10: when the fitter has returned, fit_basic returns a list of exactly
\* one element, a fresh copy (not the caller's object, not the unpacker's)
\* whose parameter values are those of the vector the fitter returned and
\* whose other fields are those of the specification that was fitted.
C10_SingleFreshResult ==
    pc = "done" =>
        /\ Len(results) = 1
        /\ results[1].obj = "deepcopy"
        /\ Pack(results[1].mods) = Get(improved_sigma)
        /\ \A i \in Idx :
              /\ results[1].mods[i].prior = modelspec[i].prior
              /\ IsNone(results[1].mods[i].phi) <=> IsNone(modelspec[i].phi)

C10_Witness ==
    /\ pc = "done"
    /\ Len(results) = 1
    /\ Get(improved_sigma) # Pack(modelspec)


\* C11: the result of fit_basic carries 'fitter' = the metaname of the call,
\* 'fit_time' = a non-negative elapsed time, and 'n_parms' = the length of
\* the vector pack gives for the fitted specification.
C11_ResultMetadata ==
    pc = "done" =>
        /\ results[1].meta.fitter = metaname
        /\ results[1].meta.fit_time >= 0
        /\ results[1].meta.fit_time = now - start_time
        /\ results[1].meta.n_parms = Len(Pack(results[1].mods))

C11_Witness ==
    /\ pc = "done"
    /\ results[1].meta.fitter = "fit_jackknifes"
    /\ results[1].meta.fit_time > 0
    /\ start_time > 0
    /\ results[1].meta.n_parms = 1


\* C12: the specification is in fitting mode while the fitter runs, every
\* candidate the cost function evaluates is in fitting mode, and the result
\* fit_basic returns is not in fitting mode.
C12_FitModeBrackets ==
    /\ pc = "fitting" => \A i \in Idx : modelspec[i].fit
    /\ ~IsNone(last) => \A i \in Idx : Get(last).spec[i].fit
    /\ pc = "done" => \A i \in Idx : ~results[1].mods[i].fit

C12_Witness ==
    /\ pc = "done"
    /\ ncalls = MaxCalls
    /\ \A i \in Idx : ~orig[i].fit /\ modelspec[i].fit /\ ~results[1].mods[i].fit

\* C13: when the fitter raises, fit_basic ends with that error and returns
\* no result list; a result is returned only for a vector the fitter returned.
C13_FitterErrorPropagates ==
    /\ pc = "done" => ~IsNone(improved_sigma)
    /\ (pc \in {"done", "error"} /\ IsNone(improved_sigma)) =>
            /\ pc = "error"
            /\ exc \in {"fitter", "set_mean_phi"}
            /\ results = <<>>
    /\ exc = "fitter" => (pc = "error" /\ IsNone(improved_sigma))

C13_Witness ==
    /\ pc = "error"
    /\ exc = "fitter"
    /\ ncalls = MaxCalls
    /\ results = <<>>


\* C14: the counter each fit sees counts that fit's own cost calls only, also
\* when two fits that use the same cost function run interleaved.
C14_CounterLocalToFit ==
    \A f \in FitIds :
        fits[f].pc = "fitting" => counter[fits[f].fn] = Some(fits[f].ncalls)


C17_LastErrorRecorded ==
    ~IsNone(last) => error[cost_function] = Some(Get(last).ret)

\* The order of the steps of a cost call as the claim states it, and as the
\* statements stand in cost_functions.py.
ClaimedOrder ==
    <<"unpack", "prefix", "segment", "evaluate", "cache", "score", "counter">>
CodeOrder ==
    <<"unpack", "segment", "prefix", "evaluate", "cache", "score", "counter">>

\* steps has the always-run steps, and the cache update when caching, each
\* step once, in the given order.
InOrder(steps, keep_stack, order) ==
    /\ steps = SelectSeq(order, LAMBDA x : \E k \in 1..Len(steps) : steps[k] = x)
    /\ \A x \in {"unpack", "segment", "evaluate", "score", "counter"} :
            \E k \in 1..Len(steps) : steps[k] = x
    /\ keep_stack <=> \E k \in 1..Len(steps) : steps[k] = "cache"

\* C18 (as stated): every cost call runs unpack, prefix (when caching),
\* segment, evaluate, cache update, score, counter, once each in that order.
C18_StepsInStatedOrder ==
    ~IsNone(last) => InOrder(Get(last).steps, Get(last).keep_stack, ClaimedOrder)

\* C18 (amended): every cost call runs unpack, segment, prefix (when caching
\* and a cache exists), evaluate, cache update (when caching), score, counter,
\* once each in that order: the segmentor runs before the prefix is
\* determined, and the cache is updated before the metric is computed.
C18_StepsInCodeOrder ==
    ~IsNone(last) =>
        /\ InOrder(Get(last).steps, Get(last).keep_stack, CodeOrder)
        /\ (Get(last).keep_stack /\ ~IsNone(Get(last).cache_from))
                <=> \E k \in 1..Len(Get(last).steps) : Get(last).steps[k] = "prefix"

C18_Witness ==
    /\ ~IsNone(last)
    /\ Get(last).steps = CodeOrder

\* C19: with caching enabled, a cost call that finds no cache evaluates with
\* start = None and creates the cache, and after every such call the cache
\* holds the stack that call's own evaluation produced.
C19_CacheIsThisCallsStack ==
    (~IsNone(last) /\ Get(last).keep_stack) =>
        /\ ~IsNone(stack)
        /\ stack = Get(last).evaluated
        /\ Metric([pred |-> Get(stack)[NMod], resp |-> data.resp]) = Get(last).ret
        /\ IsNone(Get(last).cache_from) => IsNone(Get(last).start)

C19_Witness ==
    /\ ~IsNone(last)
    /\ Get(last).keep_stack
    /\ ~IsNone(Get(last).cache_from)
    /\ ncalls = MaxCalls
    /\ Get(last).spec # Get(Get(last).cache_from)
    /\ stack = Get(last).evaluated

\* C20: a cost call with keep_stack = False evaluates from the start
\* (start = None) and leaves the cache as it was, also when a cache exists.
C20_NoCachingLeavesCache ==
    [][(ncalls' = ncalls + 1 /\ ~Get(last').keep_stack) =>
            /\ stack' = stack
            /\ IsNone(Get(last').start)
            /\ Get(last').ret =
                   Metric(Evaluate(Segmentor(data), Get(last').spec, None, FALSE))]_vars

C20_Witness ==
    /\ ~IsNone(last)
    /\ ~Get(last).keep_stack
    /\ cost_function = CF
    /\ ~IsNone(stack)
    /\ IsNone(Get(last).start)


\* C16: each multi-fit function returns one result per iteration of its loop
\* (ntimes, njacks, nsplits, len(data_list) of them), in iteration order, each
\* one the result of one run of fit_basic.
C16_OneResultPerIteration ==
    loop.st = "returned" =>
        /\ Len(loop.models) = loop.n
        /\ \A k \in 1..Len(loop.models) :
                /\ loop.models[k].iter = k - 1
                /\ loop.models[k].res.obj = "deepcopy"
                /\ loop.models[k].res.meta.fitter = MetaOf(loop.variant)

C16_Witness ==
    /\ loop.st = "returned"
    /\ loop.n = MaxIter
    /\ loop.variant = "fit_from_priors"
    /\ Len(loop.models) = MaxIter
    /\ loop.models[1].res # loop.models[MaxIter].res


\* C21: in the multi-fit loops the specification (parameter values and
\* fit-mode marking) with which an iteration enters fit_basic does not depend
\* on earlier iterations: it is what the iteration's preparation makes of the
\* specification the caller passed to the multi-fit function.
C21_IterationsIndependent ==
    (loop.st = "running" /\ pc \in {"fitting", "done", "error"}) =>
        orig \in Prepared(loop.variant, loop.base, loop.base)


\* C22: in the recording browser signals and plot_list have the same length
\* and plot_list[i] shows signals[i], after construction and after any
\* add_signal / remove_signal.
C22_SignalsMatchPlots ==
    win.open =>
        /\ Len(win.signals) = Len(win.plot_list)
        /\ \A i \in 1..Len(win.signals) : win.plot_list[i].signal = win.signals[i]

\* C23: in the recording browser the displayed window stays valid:
\* 0 <= start_time <= stop_time <= max_time and
\* display_duration >= minimum_duration.
C23_TimeWindowValid ==
    win.open =>
        /\ 0 <= win.start_time
        /\ win.start_time <= win.stop_time
        /\ win.stop_time <= win.max_time
        /\ win.display_duration >= MinimumDuration

====
